---- MODULE Spec2Model ----
(***************************************************************************)
(* Model of the WebSocket client of go-hyperliquid (type WebSocketAPI):    *)
(* connection lifecycle, subscription registry, request correlation table  *)
(* and the reader loop, at the granularity of the code's critical          *)
(* sections.                                                               *)
(*                                                                         *)
(* Strings are sequences of tokens; "-" is a token of its own, so that     *)
(* fmt.Sprintf("%s-%s", a, b) is a \o <<"-">> \o b and the prefix test of  *)
(* processMessage is a test on sequences.                                  *)
(***************************************************************************)
EXTENDS Integers, Sequences, FiniteSets, TLC

\* ---------------------------------------------------------------- bounds
MaxOps == 3
MaxMsgs == 2
MaxConns == 2
MaxFaults == 1

\* ------------------------------------------------------------- constants
MaxInt32 == 2147483647
MinInt32 == -MaxInt32 - 1

\* ---------------------------------------------------------------- values
None == "none"
NoErr == "nil"
Nil == "nil"
Dash == "-"
EmptyStr == <<>>

\* callers are goroutines -1, -2; reader loop n is the one the n-th dial started
Callers == {-1, -2}
NoHolder == 0
\* in Spec, goroutine -1 issues the requests and goroutine -2 drives the lifecycle
Requesters == {-1}
Controllers == {-2}
Readers == 1..MaxConns
Execs == Callers \cup Readers

UserA == <<"A">>
UserB == <<"B">>
CoinBTC == <<"BTC">>
OrderUpdates == <<"orderUpdates">>
L2Book == <<"l2Book">>
ActiveAssetData == <<"activeAssetData">>

\* Subscription (ws_types.go): the fields the channel key is derived from
Subscription(type, user, coin, interval) ==
    [Type |-> type, User |-> user, Coin |-> coin, Interval |-> interval]

SubOrdersNoUser == Subscription(OrderUpdates, EmptyStr, EmptyStr, EmptyStr)
SubOrdersA == Subscription(OrderUpdates, UserA, EmptyStr, EmptyStr)
SubOrdersB == Subscription(OrderUpdates, UserB, EmptyStr, EmptyStr)
SubBook == Subscription(L2Book, EmptyStr, CoinBTC, EmptyStr)
\* what SubscribeToActiveAssetData(address, coin, callback) subscribes with
SubAssetData == Subscription(ActiveAssetData, UserA, CoinBTC, EmptyStr)

\* the zero Subscription
NoSub == Subscription(EmptyStr, EmptyStr, EmptyStr, EmptyStr)

\* the descriptors callers subscribe with
Subs == {SubOrdersNoUser, SubOrdersA, SubOrdersB, SubBook}

\* caller-supplied callbacks are "h1", "h2" and HRe, a callback that calls
\* Subscribe(CbSub, CbHandler) itself
HRe == "hRe"
CbSub == SubBook
CbHandler == "h1"

\* the Subscribe calls of the callers
SubCalls ==
    {<<s, "h1">> : s \in Subs} \cup {<<SubOrdersA, "h2">>, <<SubOrdersA, HRe>>}

Payloads == {"p1", "p2"}

\* fmt.Sprintf("%s-%s", a, b)
Sprintf2(a, b) == a \o <<Dash>> \o b

\* channel key derivation of Subscribe / Unsubscribe
ChannelKey(sub) ==
    LET k0 == sub.Type
        k1 == IF sub.User # EmptyStr THEN Sprintf2(k0, sub.User) ELSE k0
        k2 == IF sub.Coin # EmptyStr THEN Sprintf2(k1, sub.Coin) ELSE k1
    IN  IF sub.Interval # EmptyStr THEN Sprintf2(k2, sub.Interval) ELSE k2

\* api.handlers[channelKey] = callback
RegistryKeep(hs, k, h) ==
    IF k \in DOMAIN hs THEN hs ELSE [x \in DOMAIN hs \cup {k} |-> IF x = k THEN h ELSE hs[x]]

RegistryPut(hs, k, h) ==
    [x \in DOMAIN hs \cup {k} |-> IF x = k THEN h ELSE hs[x]]

\* delete(api.handlers, channelKey)
RegistryDelAll(hs, k) == [x \in {} |-> None]

RegistryDel(hs, k) == [x \in DOMAIN hs \ {k} |-> hs[x]]

\* make(map[...]...)
EmptyMap == [x \in {} |-> None]

VARIABLES
    conn,         \* api.conn: 0 is nil, n > 0 the n-th dialled transport
    connClosed,   \* transports on which Close() has taken effect
    nconn,        \* transports dialled so far
    connected,    \* api.connected
    done,         \* api.done: identity of the stop channel (0: made by the constructor)
    doneClosed,   \* stop channels that have been closed
    handlers,     \* api.handlers
    postHandlers, \* api.postHandlers: id -> response channel
    chans,        \* response channels: id -> [buf, closed]
    idCounter,    \* api.idCounter
    connMu,       \* holder of api.connMu, or NoHolder
    muR,          \* executors holding api.mu.RLock
    pc,           \* position of every caller and reader loop
    loc,          \* locals of the API call an executor is in
    rd,           \* locals of the reader loops
    wire,         \* last message written to the transport
    panicked,     \* the process has died of a run-time panic
    lastSub,      \* history: per channel key, the callback of the latest Subscribe and the one before
    gone,         \* history: descriptors that a returned Unsubscribe removed, not subscribed since
    nOps, nMsgs, nFaults

vars == <<conn, connClosed, nconn, connected, done, doneClosed, handlers,
          postHandlers, chans, idCounter, connMu, muR, pc, loc, rd, wire,
          panicked, lastSub, gone, nOps, nMsgs, nFaults>>

NoLoc == [op |-> None, sub |-> NoSub, h |-> None, id |-> 0,
          res |-> Nil, err |-> NoErr, how |-> None, ret |-> FALSE]
NoMsg == [kind |-> None]
NoRd == [conn |-> 0, msg |-> NoMsg, ch |-> 0, h |-> None, key |-> <<>>, via |-> <<>>,
         arg |-> None, calls |-> 0, stage |-> None, regAt |-> {}, reg1 |-> {},
         latest |-> [h |-> None, prev |-> None],
         readGone |-> FALSE, callGone |-> FALSE]
NoWire == [method |-> None]

\* NewWebSocketAPI
Init ==
    /\ conn = 0
    /\ connClosed = {}
    /\ nconn = 0
    /\ connected = FALSE
    /\ done = 0
    /\ doneClosed = {}
    /\ handlers = EmptyMap
    /\ postHandlers = EmptyMap
    /\ chans = EmptyMap
    /\ idCounter = 0
    /\ connMu = NoHolder
    /\ muR = {}
    /\ pc = [e \in Execs |-> IF e \in Callers THEN "idle" ELSE "off"]
    /\ loc = [e \in Execs |-> NoLoc]
    /\ rd = [r \in Readers |-> NoRd]
    /\ wire = NoWire
    /\ panicked = FALSE
    /\ lastSub = EmptyMap
    /\ gone = {}
    /\ nOps = 0
    /\ nMsgs = 0
    /\ nFaults = 0

\* a call returns: a caller is idle again, a callback goes on in its handler
RetPc(e) == IF e \in Readers THEN "cbRun" ELSE "idle"

Returned(l, e, res, err, how) ==
    [l EXCEPT ![e].res = res, ![e].err = err, ![e].how = how, ![e].ret = TRUE]

\* an executor can enter an API call: a caller that is idle, or a reader loop
\* whose handler is the re-entrant callback
CanCall(e) ==
    /\ ~panicked
    /\ \/ e \in Callers /\ pc[e] = "idle" /\ nOps < MaxOps
       \/ e \in Readers /\ pc[e] = "cbCall"

Called(e, op, s, h) ==
    [loc EXCEPT ![e] = [NoLoc EXCEPT !.op = op, !.sub = s, !.h = h]]

CountOp(e) == nOps' = IF e \in Callers THEN nOps + 1 ELSE nOps

\* ------------------------------------------------------------ Connect
\* if api.connected { return nil }
ConnectGuardNever(c) == FALSE

ConnectGuard(c) == c

\* the body of Connect, entered with api.connMu free; l is the locals of
\* the executor, okPc/errPc where it goes on
ConnectBody(e, l, okPc, errPc) ==
    /\ connMu = NoHolder
    /\ IF ConnectGuard(connected)
       THEN /\ pc' = [pc EXCEPT ![e] = okPc]
            /\ loc' = IF okPc = RetPc(e) THEN Returned(l, e, Nil, NoErr, "connected") ELSE l
            /\ UNCHANGED <<conn, nconn, connected, done, nFaults>>
       ELSE \/ /\ nconn < MaxConns             \* Dial succeeds
               /\ nconn' = nconn + 1
               /\ conn' = nconn + 1
               /\ connected' = TRUE
               /\ done' = nconn + 1            \* make(chan struct{})
               /\ pc' = [pc EXCEPT ![e] = okPc, ![nconn + 1] = "check"]   \* go api.readLoop()
               /\ loc' = IF okPc = RetPc(e) THEN Returned(l, e, Nil, NoErr, "dialled") ELSE l
               /\ UNCHANGED nFaults
            \/ /\ nFaults < MaxFaults \/ nconn = MaxConns   \* Dial fails
               /\ nFaults' = IF nFaults < MaxFaults THEN nFaults + 1 ELSE nFaults
               /\ pc' = [pc EXCEPT ![e] = errPc]
               /\ loc' = Returned(l, e, Nil, "dial", "dial")
               /\ UNCHANGED <<conn, nconn, connected, done>>
    /\ UNCHANGED <<connClosed, doneClosed, handlers, postHandlers, chans, idCounter,
                   connMu, muR, rd, wire, panicked, lastSub, gone, nMsgs>>

Connect(e) ==
    /\ CanCall(e) /\ e \in Callers
    /\ CountOp(e)
    /\ ConnectBody(e, Called(e, "Connect", NoSub, None), RetPc(e), RetPc(e))

\* IsConnected, as the calls that start with it use it
IsConnected == connected

\* the connect-on-demand of Subscribe and Post
ConnectOnDemand(e, fromPc, okPc) ==
    /\ ~panicked
    /\ pc[e] = fromPc
    /\ ConnectBody(e, loc, okPc, RetPc(e))
    /\ UNCHANGED nOps

\* ------------------------------------------------------------ Disconnect
\* for id, ch := range api.postHandlers { close(ch); delete(api.postHandlers, id) }
CancelPending(cs, ph) ==
    [c \in DOMAIN cs |->
        IF \E id \in DOMAIN ph : ph[id] = c THEN [cs[c] EXCEPT !.closed = TRUE] ELSE cs[c]]

\* if !api.connected { return nil }
DisconnectGuard(c) == ~c

\* Disconnect up to close(api.done); with the client disconnected it is the
\* whole call
DisconnectBegin(e) ==
    /\ CanCall(e) /\ e \in Callers
    /\ connMu = NoHolder
    /\ CountOp(e)
    /\ IF DisconnectGuard(connected)
       THEN /\ pc' = [pc EXCEPT ![e] = RetPc(e)]
            /\ loc' = Returned(Called(e, "Disconnect", NoSub, None), e, Nil, NoErr, "disconnected")
            /\ UNCHANGED <<connMu, doneClosed, panicked>>
       ELSE /\ loc' = Called(e, "Disconnect", NoSub, None)
            /\ IF done \in doneClosed
               THEN /\ panicked' = TRUE        \* close of closed channel
                    /\ UNCHANGED <<pc, connMu, doneClosed>>
               ELSE /\ doneClosed' = doneClosed \cup {done}
                    /\ connMu' = e
                    /\ pc' = [pc EXCEPT ![e] = "DiscClear"]
                    /\ UNCHANGED panicked
    /\ UNCHANGED <<conn, connClosed, nconn, connected, done, handlers, postHandlers,
                   chans, idCounter, muR, rd, wire, lastSub, gone, nMsgs, nFaults>>

\* Disconnect from api.mu.Lock() to its return
DisconnectFinish(e) ==
    /\ ~panicked
    /\ pc[e] = "DiscClear"
    /\ muR = {}
    /\ handlers' = EmptyMap
    /\ lastSub' = EmptyMap
    /\ UNCHANGED gone
    /\ IF \E id \in DOMAIN postHandlers : chans[postHandlers[id]].closed
       THEN /\ panicked' = TRUE                \* close of closed channel
            /\ UNCHANGED <<postHandlers, chans, connClosed, connected, connMu, pc, loc,
                           wire, nFaults>>
       ELSE /\ chans' = CancelPending(chans, postHandlers)
            /\ postHandlers' = EmptyMap
            /\ wire' = [method |-> "close", conn |-> conn]
            /\ connMu' = NoHolder
            /\ pc' = [pc EXCEPT ![e] = RetPc(e)]
            /\ UNCHANGED panicked
            /\ \/ /\ connClosed' = connClosed \cup {conn}     \* api.conn.Close() succeeds
                  /\ connected' = FALSE
                  /\ loc' = Returned(loc, e, Nil, NoErr, "closed")
                  /\ UNCHANGED nFaults
               \/ /\ nFaults < MaxFaults                        \* api.conn.Close() fails
                  /\ nFaults' = nFaults + 1
                  /\ \E closedAnyway \in BOOLEAN :
                        connClosed' = IF closedAnyway THEN connClosed \cup {conn} ELSE connClosed
                  /\ loc' = Returned(loc, e, Nil, "close", "closeFailed")
                  /\ UNCHANGED connected
    /\ UNCHANGED <<conn, nconn, done, doneClosed, idCounter, muR, rd, nOps, nMsgs>>

\* ------------------------------------------------------------ sendMessage
\* sendMessage(message): the whole function, under api.connMu; m is the
\* message, okPc/errPc where the caller goes on
SendMessage(e, m, okPc, errPc) ==
    /\ connMu = NoHolder
    /\ IF ~connected
       THEN /\ pc' = [pc EXCEPT ![e] = errPc]
            /\ loc' = Returned(loc, e, Nil, "not connected", "send")
            /\ UNCHANGED <<wire, nFaults>>
       ELSE \/ /\ conn \notin connClosed                 \* WriteMessage succeeds
               /\ wire' = [m EXCEPT !.conn = conn]
               /\ pc' = [pc EXCEPT ![e] = okPc]
               /\ loc' = IF okPc = RetPc(e) THEN Returned(loc, e, Nil, NoErr, "sent") ELSE loc
               /\ UNCHANGED nFaults
            \/ /\ conn \in connClosed \/ nFaults < MaxFaults   \* WriteMessage fails
               /\ nFaults' = IF conn \in connClosed THEN nFaults ELSE nFaults + 1
               /\ pc' = [pc EXCEPT ![e] = errPc]
               /\ loc' = Returned(loc, e, Nil, "write", "send")
               /\ UNCHANGED wire

\* ------------------------------------------------------------ Subscribe
\* Subscribe up to the outcome of IsConnected
SubscribeBegin(e, s, h) ==
    /\ CanCall(e)
    /\ e \in Readers => (s = CbSub /\ h = CbHandler)
    /\ connMu = NoHolder
    /\ CountOp(e)
    /\ loc' = Called(e, "Subscribe", s, h)
    /\ pc' = [pc EXCEPT ![e] = IF IsConnected THEN "SubReg" ELSE "SubConnect"]
    /\ gone' = gone \ {s}
    /\ UNCHANGED <<conn, connClosed, nconn, connected, done, doneClosed, handlers,
                   postHandlers, chans, idCounter, connMu, muR, rd, wire, panicked,
                   lastSub, nMsgs, nFaults>>

SubscribeConnect(e) == ConnectOnDemand(e, "SubConnect", "SubReg")

\* api.mu.Lock(); api.handlers[channelKey] = callback; api.mu.Unlock()
SubscribeRegister(e) ==
    /\ ~panicked
    /\ pc[e] = "SubReg"
    /\ muR = {}
    /\ handlers' = RegistryPut(handlers, ChannelKey(loc[e].sub), loc[e].h)
    /\ lastSub' = [k \in DOMAIN lastSub \cup {ChannelKey(loc[e].sub)} |->
                      IF k = ChannelKey(loc[e].sub)
                      THEN [h |-> loc[e].h,
                            prev |-> IF k \in DOMAIN lastSub THEN lastSub[k].h ELSE None]
                      ELSE lastSub[k]]
    /\ UNCHANGED gone
    /\ pc' = [pc EXCEPT ![e] = "SubSend"]
    /\ UNCHANGED <<conn, connClosed, nconn, connected, done, doneClosed, postHandlers,
                   chans, idCounter, connMu, muR, loc, rd, wire, panicked, nOps, nMsgs,
                   nFaults>>

SubscribeSend(e) ==
    /\ ~panicked
    /\ pc[e] = "SubSend"
    /\ SendMessage(e, [method |-> "subscribe", sub |-> loc[e].sub, conn |-> 0],
                   RetPc(e), RetPc(e))
    /\ UNCHANGED <<conn, connClosed, nconn, connected, done, doneClosed, handlers,
                   postHandlers, chans, idCounter, connMu, muR, rd, panicked, lastSub, gone,
                   nOps, nMsgs>>

\* ------------------------------------------------------------ Unsubscribe
\* Unsubscribe up to the outcome of IsConnected
UnsubscribeBegin(e, s) ==
    /\ CanCall(e) /\ e \in Callers
    /\ connMu = NoHolder
    /\ CountOp(e)
    /\ IF IsConnected
       THEN /\ loc' = Called(e, "Unsubscribe", s, None)
            /\ pc' = [pc EXCEPT ![e] = "UnsReg"]
       ELSE /\ loc' = Returned(Called(e, "Unsubscribe", s, None), e, Nil, "not connected",
                               "notConnected")
            /\ pc' = [pc EXCEPT ![e] = RetPc(e)]
    /\ UNCHANGED <<conn, connClosed, nconn, connected, done, doneClosed, handlers,
                   postHandlers, chans, idCounter, connMu, muR, rd, wire, panicked,
                   lastSub, gone, nMsgs, nFaults>>

\* api.mu.Lock(); delete(api.handlers, channelKey); api.mu.Unlock()
UnsubscribeRemove(e) ==
    /\ ~panicked
    /\ pc[e] = "UnsReg"
    /\ muR = {}
    /\ handlers' = RegistryDel(handlers, ChannelKey(loc[e].sub))
    /\ lastSub' = [k \in DOMAIN lastSub \ {ChannelKey(loc[e].sub)} |-> lastSub[k]]
    /\ UNCHANGED gone
    /\ loc' = [loc EXCEPT ![e].how =
                  IF ChannelKey(loc[e].sub) \in DOMAIN handlers THEN "removed" ELSE "absent"]
    /\ pc' = [pc EXCEPT ![e] = "UnsSend"]
    /\ UNCHANGED <<conn, connClosed, nconn, connected, done, doneClosed, postHandlers,
                   chans, idCounter, connMu, muR, rd, wire, panicked, nOps, nMsgs,
                   nFaults>>

UnsubscribeSend(e) ==
    /\ ~panicked
    /\ pc[e] = "UnsSend"
    /\ SendMessage(e, [method |-> "unsubscribe", sub |-> loc[e].sub, conn |-> 0],
                   RetPc(e), RetPc(e))
    /\ gone' = IF loc'[e].err = NoErr /\ loc[e].how = "removed"
               THEN gone \cup {loc[e].sub} ELSE gone
    /\ UNCHANGED <<conn, connClosed, nconn, connected, done, doneClosed, handlers,
                   postHandlers, chans, idCounter, connMu, muR, rd, panicked, lastSub,
                   nOps, nMsgs>>

\* ------------------------------------------------------------ Post
\* api.idCounter.Add(1) on an atomic.Int32
Add1(x) == IF x = MaxInt32 THEN MinInt32 ELSE x + 1

\* make(chan interface{}, 1)
NoValue == [isErr |-> FALSE, val |-> None, id |-> 0]
NewChan == [buf |-> <<>>, closed |-> FALSE, first |-> NoValue]

MapPut(m, k, v) == [x \in DOMAIN m \cup {k} |-> IF x = k THEN v ELSE m[x]]

\* delete(api.postHandlers, id) of the deferred function of Post
MapDelNone(m, k) == m

MapDel(m, k) == [x \in DOMAIN m \ {k} |-> m[x]]

\* Post up to the outcome of IsConnected
PostBegin(e) ==
    /\ CanCall(e) /\ e \in Callers
    /\ connMu = NoHolder
    /\ CountOp(e)
    /\ loc' = Called(e, "Post", NoSub, None)
    /\ pc' = [pc EXCEPT ![e] = IF IsConnected THEN "PostAlloc" ELSE "PostConnect"]
    /\ UNCHANGED <<conn, connClosed, nconn, connected, done, doneClosed, handlers,
                   postHandlers, chans, idCounter, connMu, muR, rd, wire, panicked,
                   lastSub, gone, nMsgs, nFaults>>

PostConnect(e) == ConnectOnDemand(e, "PostConnect", "PostAlloc")

\* id := int(api.idCounter.Add(1)); responseChan := make(chan interface{}, 1)
PostAlloc(e) ==
    /\ ~panicked
    /\ pc[e] = "PostAlloc"
    /\ idCounter' = Add1(idCounter)
    /\ loc' = [loc EXCEPT ![e].id = Add1(idCounter)]
    /\ chans' = MapPut(chans, Add1(idCounter), NewChan)
    /\ pc' = [pc EXCEPT ![e] = "PostReg"]
    /\ UNCHANGED <<conn, connClosed, nconn, connected, done, doneClosed, handlers,
                   postHandlers, connMu, muR, rd, wire, panicked, lastSub, gone, nOps, nMsgs,
                   nFaults>>

\* api.mu.Lock(); api.postHandlers[id] = responseChan; api.mu.Unlock()
PostRegister(e) ==
    /\ ~panicked
    /\ pc[e] = "PostReg"
    /\ muR = {}
    /\ postHandlers' = MapPut(postHandlers, loc[e].id, loc[e].id)
    /\ pc' = [pc EXCEPT ![e] = "PostSend"]
    /\ UNCHANGED <<conn, connClosed, nconn, connected, done, doneClosed, handlers,
                   chans, idCounter, connMu, muR, loc, rd, wire, panicked, lastSub, gone, nOps,
                   nMsgs, nFaults>>

PostSend(e) ==
    /\ ~panicked
    /\ pc[e] = "PostSend"
    /\ SendMessage(e, [method |-> "post", id |-> loc[e].id, conn |-> 0],
                   "PostWait", "PostDefer")
    /\ UNCHANGED <<conn, connClosed, nconn, connected, done, doneClosed, handlers,
                   postHandlers, chans, idCounter, connMu, muR, rd, panicked, lastSub, gone,
                   nOps, nMsgs>>

\* what Post returns for a value received from responseChan:
\* if err, ok := response.(error); ok { return nil, err }; return response, nil
PostResultSwapped(v) ==
    IF v.isErr THEN [res |-> v.val, err |-> NoErr] ELSE [res |-> Nil, err |-> v.val]

PostResult(v) ==
    IF v.isErr THEN [res |-> Nil, err |-> v.val] ELSE [res |-> v.val, err |-> NoErr]

\* the zero value a receive from a closed, empty channel yields: a nil interface
ClosedValue == [isErr |-> FALSE, val |-> Nil, id |-> 0]

\* the select of Post: a value from responseChan, or the timer
PostWait(e) ==
    /\ ~panicked
    /\ pc[e] = "PostWait"
    /\ pc' = [pc EXCEPT ![e] = "PostDefer"]
    /\ LET c == chans[loc[e].id] IN
       \/ /\ c.buf # <<>>
          /\ chans' = [chans EXCEPT ![loc[e].id].buf = Tail(c.buf)]
          /\ loc' = Returned(loc, e, PostResult(Head(c.buf)).res, PostResult(Head(c.buf)).err,
                             "value")
       \/ /\ c.buf = <<>> /\ c.closed
          /\ loc' = Returned(loc, e, PostResult(ClosedValue).res, PostResult(ClosedValue).err,
                             "closed")
          /\ UNCHANGED chans
       \/ /\ loc' = Returned(loc, e, Nil, "request timeout", "timeout")
          /\ UNCHANGED chans
    /\ UNCHANGED <<conn, connClosed, nconn, connected, done, doneClosed, handlers,
                   postHandlers, idCounter, connMu, muR, rd, wire, panicked, lastSub, gone, nOps,
                   nMsgs, nFaults>>

\* the deferred function of Post, then the return
PostDefer(e) ==
    /\ ~panicked
    /\ pc[e] = "PostDefer"
    /\ muR = {}
    /\ postHandlers' = MapDel(postHandlers, loc[e].id)
    /\ pc' = [pc EXCEPT ![e] = RetPc(e)]
    /\ UNCHANGED <<conn, connClosed, nconn, connected, done, doneClosed, handlers,
                   chans, idCounter, connMu, muR, loc, rd, wire, panicked, lastSub, gone, nOps,
                   nMsgs, nFaults>>

\* ------------------------------------------------------------ inbound messages
\* {"channel":"post","data":{"id":id,"response":{"type":rtype,"payload":payload}}}
\* bad names the part of "data" that is missing or of the wrong type, if any
PostMsg(id, rtype, payload) ==
    [kind |-> "post", id |-> id, rtype |-> rtype, payload |-> payload, bad |-> None]

\* a "post" message whose "data", "id" or "response" does not have the
\* expected type (id is then what the sender meant)
BadPostMsg(id, why) == [PostMsg(id, "ok", "p1") EXCEPT !.bad = why]

\* bytes that json.Unmarshal cannot parse into a WsResponse
GarbageMsg == [kind |-> "garbage"]

\* the type assertions on data, data["id"] and data["response"]
ParsePostAny(m) == TRUE

ParsePost(m) == m.bad = None

\* a feed message {"channel":..., "data":...}; the payload is an object with
\* a "coin" and/or a "user" field of type string, or carries neither (a list,
\* as for order updates); target is the subscription the venue sends it for
FeedMsg(s, hasCoin, hasUser) ==
    [kind |-> "feed", channel |-> s.Type, hasCoin |-> hasCoin, coin |-> s.Coin,
     hasUser |-> hasUser, user |-> s.User, target |-> s]

PostMsgs == {PostMsg(id, "ok", p) : id \in DOMAIN chans, p \in Payloads}
              \cup {PostMsg(id, "error", "e1") : id \in DOMAIN chans}

MalformedMsgs ==
    {GarbageMsg} \cup {BadPostMsg(id, w) : id \in DOMAIN chans, w \in {"data", "id", "response"}}

FeedMsgs ==
    {FeedMsg(s, FALSE, FALSE) : s \in {SubOrdersNoUser, SubOrdersA, SubOrdersB}}
      \cup {FeedMsg(s, FALSE, TRUE) : s \in {SubOrdersA, SubOrdersB}}
      \cup {FeedMsg(SubBook, TRUE, FALSE)}

\* what processMessage puts into the response channel
DeliverValue(m) ==
    IF m.rtype = "error"
    THEN [isErr |-> TRUE, val |-> IF m.payload = "" THEN "unknown error" ELSE m.payload,
          id |-> m.id]
    ELSE [isErr |-> FALSE, val |-> m.payload, id |-> m.id]

\* the dispatch key of processMessage: the channel, then the coin, then the user
DispatchKey(m) ==
    LET k0 == m.channel
        k1 == IF m.hasCoin THEN Sprintf2(k0, m.coin) ELSE k0
    IN  IF m.hasUser THEN Sprintf2(k1, m.user) ELSE k1

prefixToMatch == <<"orderUpdates", Dash>>

\* len(hKey) > len(prefixToMatch) && hKey[:len(prefixToMatch)] == prefixToMatch
HasOrderPrefixLoose(hKey) ==
    Len(hKey) >= 1 /\ SubSeq(hKey, 1, 1) = SubSeq(prefixToMatch, 1, 1)

HasOrderPrefix(hKey) ==
    /\ Len(hKey) > Len(prefixToMatch)
    /\ SubSeq(hKey, 1, Len(prefixToMatch)) = prefixToMatch

\* the registry keys the lookup of the "orderUpdates" case can end on: the
\* exact key, else any key the range over the map meets first
OrderLookup(hs, key) ==
    IF key \in DOMAIN hs THEN {key} ELSE {k \in DOMAIN hs : HasOrderPrefix(k)}

\* handler, ok := api.handlers[channelKey]
ExactLookupBare(hs, key, m) ==
    IF key \in DOMAIN hs THEN {key}
    ELSE IF m.channel \in DOMAIN hs THEN {m.channel} ELSE {}

ExactLookup(hs, key, m) == IF key \in DOMAIN hs THEN {key} ELSE {}

\* ------------------------------------------------------------ readLoop
\* select { case <-api.done: return; default: ... api.conn.ReadMessage() }
\* api.done and api.conn are read without a lock
ReaderCheck(r) ==
    /\ ~panicked
    /\ pc[r] = "check"
    /\ IF done \in doneClosed
       THEN /\ pc' = [pc EXCEPT ![r] = "exit"]
            /\ rd' = [rd EXCEPT ![r] = NoRd]
       ELSE /\ pc' = [pc EXCEPT ![r] = "read"]
            /\ rd' = [rd EXCEPT ![r] = [NoRd EXCEPT !.conn = conn]]
    /\ UNCHANGED <<conn, connClosed, nconn, connected, done, doneClosed, handlers,
                   postHandlers, chans, idCounter, connMu, muR, loc, wire, panicked,
                   lastSub, gone, nOps, nMsgs, nFaults>>

\* ReadMessage returns a message of M
ReaderRead(r, M) ==
    /\ ~panicked
    /\ pc[r] = "read"
    /\ rd[r].conn \notin connClosed
    /\ nMsgs < MaxMsgs
    /\ nMsgs' = nMsgs + 1
    /\ \E m \in M :
          rd' = [rd EXCEPT ![r] = [NoRd EXCEPT !.msg = m, !.stage = "read",
                                        !.readGone = (m.kind = "feed" /\ m.target \in gone)]]
    /\ pc' = [pc EXCEPT ![r] = "proc"]
    /\ UNCHANGED <<conn, connClosed, nconn, connected, done, doneClosed, handlers,
                   postHandlers, chans, idCounter, connMu, muR, loc, wire, panicked,
                   lastSub, gone, nOps, nFaults>>

\* ReadMessage returns an error: the transport was closed, or the read failed
ReaderReadFail(r) ==
    /\ ~panicked
    /\ pc[r] = "read"
    /\ \/ rd[r].conn \in connClosed /\ UNCHANGED nFaults
       \/ rd[r].conn \notin connClosed /\ nFaults < MaxFaults /\ nFaults' = nFaults + 1
    /\ pc' = [pc EXCEPT ![r] = "exit"]
    /\ rd' = [rd EXCEPT ![r] = NoRd]
    /\ UNCHANGED <<conn, connClosed, nconn, connected, done, doneClosed, handlers,
                   postHandlers, chans, idCounter, connMu, muR, loc, wire, panicked,
                   lastSub, gone, nOps, nMsgs>>

\* the deferred function of readLoop
ReaderExit(r) ==
    /\ ~panicked
    /\ pc[r] = "exit"
    /\ connMu = NoHolder
    /\ connected' = FALSE
    /\ pc' = [pc EXCEPT ![r] = "ended"]
    /\ UNCHANGED <<conn, connClosed, nconn, done, doneClosed, handlers, postHandlers,
                   chans, idCounter, connMu, muR, loc, rd, wire, panicked, lastSub, gone,
                   nOps, nMsgs, nFaults>>

\* ------------------------------------------------------------ processMessage
\* the handler call: what the reader records of it, and where it goes on
Invoke(r, k, arg, locked) ==
    /\ rd' = [rd EXCEPT ![r].h = handlers[k], ![r].via = k, ![r].arg = arg,
                        ![r].calls = rd[r].calls + 1, ![r].stage = "dispatched",
                        ![r].regAt = DOMAIN handlers, ![r].latest = lastSub[k],
                        ![r].reg1 = IF locked THEN DOMAIN handlers ELSE rd[r].reg1,
                        ![r].callGone = (rd[r].msg.target \in gone)]
    /\ pc' = [pc EXCEPT ![r] = IF handlers[k] = HRe THEN "cbCall" ELSE "cbRun"]
    /\ muR' = IF locked THEN muR \cup {r} ELSE muR

Dropped(r) ==
    /\ rd' = [rd EXCEPT ![r].stage = "dropped", ![r].regAt = DOMAIN handlers]
    /\ pc' = [pc EXCEPT ![r] = "check"]
    /\ UNCHANGED muR

\* a message that does not parse: processMessage logs and returns
ProcessUnparsed(r) ==
    /\ ~panicked
    /\ pc[r] = "proc"
    /\ rd[r].msg.kind = "garbage"
    /\ rd' = [rd EXCEPT ![r].stage = "dropped"]
    /\ pc' = [pc EXCEPT ![r] = "check"]
    /\ UNCHANGED <<conn, connClosed, nconn, connected, done, doneClosed, handlers,
                   postHandlers, chans, idCounter, connMu, muR, loc, wire, panicked,
                   lastSub, gone, nOps, nMsgs, nFaults>>

\* a "post" message up to api.mu.RUnlock(): the type assertions, then the
\* lookup in the correlation table
ProcessPost(r) ==
    /\ ~panicked
    /\ pc[r] = "proc"
    /\ rd[r].msg.kind = "post"
    /\ IF ParsePost(rd[r].msg) /\ rd[r].msg.id \in DOMAIN postHandlers
       THEN /\ rd' = [rd EXCEPT ![r].ch = postHandlers[rd[r].msg.id], ![r].stage = "found"]
            /\ pc' = [pc EXCEPT ![r] = "deliver"]
       ELSE /\ rd' = [rd EXCEPT ![r].stage = "dropped"]
            /\ pc' = [pc EXCEPT ![r] = "check"]
    /\ UNCHANGED <<conn, connClosed, nconn, connected, done, doneClosed, handlers,
                   postHandlers, chans, idCounter, connMu, muR, loc, wire, panicked,
                   lastSub, gone, nOps, nMsgs, nFaults>>

\* ch <- payload, or ch <- fmt.Errorf(...): blocks while the buffer is full
DeliverPost(r) ==
    /\ ~panicked
    /\ pc[r] = "deliver"
    /\ IF chans[rd[r].ch].closed
       THEN /\ panicked' = TRUE                 \* send on closed channel
            /\ UNCHANGED <<chans, pc, rd>>
       ELSE /\ Len(chans[rd[r].ch].buf) < 1
            /\ chans' = [chans EXCEPT ![rd[r].ch].buf = Append(@, DeliverValue(rd[r].msg)),
                                      ![rd[r].ch].first =
                                          IF @ = NoValue THEN DeliverValue(rd[r].msg) ELSE @]
            /\ rd' = [rd EXCEPT ![r].stage = "delivered"]
            /\ pc' = [pc EXCEPT ![r] = "check"]
            /\ UNCHANGED panicked
    /\ UNCHANGED <<conn, connClosed, nconn, connected, done, doneClosed, handlers,
                   postHandlers, idCounter, connMu, muR, loc, wire, lastSub, gone, nOps,
                   nMsgs, nFaults>>

\* a feed message on "orderUpdates": the lookup of the switch case, under
\* api.mu.RLock(), which is still held when the handler is called
ProcessOrderUpdates(r) ==
    /\ ~panicked
    /\ pc[r] = "proc"
    /\ rd[r].msg.kind = "feed"
    /\ rd[r].msg.channel = OrderUpdates
    /\ LET key == DispatchKey(rd[r].msg) IN
       IF OrderLookup(handlers, key) # {}
       THEN \E k \in OrderLookup(handlers, key) : Invoke(r, k, "orders", TRUE)
       ELSE /\ rd' = [rd EXCEPT ![r].key = key, ![r].reg1 = DOMAIN handlers]
            /\ pc' = [pc EXCEPT ![r] = "lookup"]
            /\ UNCHANGED muR
    /\ UNCHANGED <<conn, connClosed, nconn, connected, done, doneClosed, handlers,
                   postHandlers, chans, idCounter, connMu, loc, wire, panicked, lastSub,
                   gone, nOps, nMsgs, nFaults>>

\* the lookup after the switch, for every feed message that has no handler
\* yet; the handler is called after api.mu.RUnlock()
ProcessFeed(r) ==
    /\ ~panicked
    /\ \/ pc[r] = "proc" /\ rd[r].msg.kind = "feed" /\ rd[r].msg.channel # OrderUpdates
       \/ pc[r] = "lookup"
    /\ LET key == DispatchKey(rd[r].msg) IN
       IF ExactLookup(handlers, key, rd[r].msg) # {}
       THEN \E k \in ExactLookup(handlers, key, rd[r].msg) : Invoke(r, k, "raw", FALSE)
       ELSE Dropped(r)
    /\ UNCHANGED <<conn, connClosed, nconn, connected, done, doneClosed, handlers,
                   postHandlers, chans, idCounter, connMu, loc, wire, panicked, lastSub,
                   gone, nOps, nMsgs, nFaults>>

\* the handler returns; the "orderUpdates" case then releases the read lock
HandlerReturn(r) ==
    /\ ~panicked
    /\ pc[r] = "cbRun"
    /\ muR' = muR \ {r}
    /\ pc' = [pc EXCEPT ![r] = "check"]
    /\ UNCHANGED <<conn, connClosed, nconn, connected, done, doneClosed, handlers,
                   postHandlers, chans, idCounter, connMu, loc, rd, wire, panicked,
                   lastSub, gone, nOps, nMsgs, nFaults>>

HandlerRunning(r) ==
    pc[r] \in {"cbCall", "cbRun", "SubConnect", "SubReg", "SubSend"}

\* ------------------------------------------------------------ specifications
\* lifecycle and request correlation: Connect, Disconnect and Post against
\* the reader loops, with "post" responses inbound
Next ==
    \/ \E t \in Callers : Connect(t)
    \/ \E t \in Controllers : DisconnectBegin(t)
    \/ \E t \in Callers : DisconnectFinish(t)
    \/ \E t \in Requesters : PostBegin(t)
    \/ \E t \in Callers : PostConnect(t)
    \/ \E t \in Callers : PostAlloc(t)
    \/ \E t \in Callers : PostRegister(t)
    \/ \E t \in Callers : PostSend(t)
    \/ \E t \in Callers : PostWait(t)
    \/ \E t \in Callers : PostDefer(t)
    \/ \E r \in Readers : ReaderCheck(r)
    \/ \E r \in Readers : ReaderRead(r, PostMsgs \cup MalformedMsgs)
    \/ \E r \in Readers : ReaderReadFail(r)
    \/ \E r \in Readers : ReaderExit(r)
    \/ \E r \in Readers : ProcessUnparsed(r)
    \/ \E r \in Readers : ProcessPost(r)
    \/ \E r \in Readers : DeliverPost(r)

Spec == Init /\ [][Next]_vars

\* subscription registry and dispatch: Subscribe and Unsubscribe against the
\* reader loops, with feed messages inbound
NextRoute ==
    \/ \E e \in Requesters \cup Readers, c \in SubCalls : SubscribeBegin(e, c[1], c[2])
    \/ \E e \in Execs : SubscribeConnect(e)
    \/ \E e \in Execs : SubscribeRegister(e)
    \/ \E e \in Execs : SubscribeSend(e)
    \/ \E t \in Requesters, s \in Subs : UnsubscribeBegin(t, s)
    \/ \E t \in Callers : UnsubscribeRemove(t)
    \/ \E t \in Callers : UnsubscribeSend(t)
    \/ \E r \in Readers : ReaderCheck(r)
    \/ \E r \in Readers : ReaderRead(r, FeedMsgs)
    \/ \E r \in Readers : ReaderReadFail(r)
    \/ \E r \in Readers : ReaderExit(r)
    \/ \E r \in Readers : ProcessOrderUpdates(r)
    \/ \E r \in Readers : ProcessFeed(r)
    \/ \E r \in Readers : HandlerReturn(r)

SpecRoute == Init /\ [][NextRoute]_vars

\* subscriptions across the lifecycle: Subscribe by one goroutine against
\* Connect and Disconnect by another, with feed messages inbound
LifeCalls == {<<SubBook, "h1">>, <<SubOrdersA, "h1">>, <<SubAssetData, "h1">>}

LifeMsgs ==
    {FeedMsg(SubBook, TRUE, FALSE), FeedMsg(SubOrdersA, FALSE, FALSE),
     FeedMsg(SubAssetData, TRUE, TRUE)}

NextLife ==
    \/ \E t \in Requesters, c \in LifeCalls : SubscribeBegin(t, c[1], c[2])
    \/ \E t \in Requesters : SubscribeConnect(t)
    \/ \E t \in Requesters : SubscribeRegister(t)
    \/ \E t \in Requesters : SubscribeSend(t)
    \/ \E t \in Controllers : Connect(t)
    \/ \E t \in Controllers : DisconnectBegin(t)
    \/ \E t \in Controllers : DisconnectFinish(t)
    \/ \E r \in Readers : ReaderCheck(r)
    \/ \E r \in Readers : ReaderRead(r, LifeMsgs)
    \/ \E r \in Readers : ReaderReadFail(r)
    \/ \E r \in Readers : ReaderExit(r)
    \/ \E r \in Readers : ProcessOrderUpdates(r)
    \/ \E r \in Readers : ProcessFeed(r)
    \/ \E r \in Readers : HandlerReturn(r)

SpecLife == Init /\ [][NextLife]_vars

\* requests against a re-entrant callback: Post by one goroutine, Subscribe
\* by another with a callback that itself calls Subscribe, order updates and
\* "post" responses inbound, under the fairness of the Go scheduler
LiveCalls == {<<SubOrdersA, HRe>>, <<CbSub, CbHandler>>}

LiveMsgs ==
    {FeedMsg(SubOrdersA, FALSE, FALSE), FeedMsg(SubBook, TRUE, FALSE)}
      \cup {PostMsg(id, "ok", "p1") : id \in DOMAIN chans}

\* the steps a goroutine takes by itself once it is inside a call or a loop
\* iteration: the scheduler runs every goroutine that can go on (what
\* arrives, and which calls the callers make, is not up to the scheduler)
LiveStep(e) ==
    \/ SubscribeConnect(e) \/ SubscribeRegister(e) \/ SubscribeSend(e)
    \/ e \in Callers /\ (PostConnect(e) \/ PostAlloc(e) \/ PostRegister(e)
                           \/ PostSend(e) \/ PostWait(e) \/ PostDefer(e))
    \/ e \in Readers /\ (ReaderCheck(e) \/ ReaderExit(e) \/ ProcessPost(e) \/ DeliverPost(e)
                           \/ ProcessOrderUpdates(e) \/ ProcessFeed(e) \/ HandlerReturn(e)
                           \/ SubscribeBegin(e, CbSub, CbHandler))

NextLive ==
    \/ \E e \in Controllers \cup Readers, c \in LiveCalls : SubscribeBegin(e, c[1], c[2])
    \/ \E e \in Execs : SubscribeConnect(e)
    \/ \E e \in Execs : SubscribeRegister(e)
    \/ \E e \in Execs : SubscribeSend(e)
    \/ \E t \in Requesters : PostBegin(t)
    \/ \E t \in Callers : PostConnect(t)
    \/ \E t \in Callers : PostAlloc(t)
    \/ \E t \in Callers : PostRegister(t)
    \/ \E t \in Callers : PostSend(t)
    \/ \E t \in Callers : PostWait(t)
    \/ \E t \in Callers : PostDefer(t)
    \/ \E r \in Readers : ReaderCheck(r)
    \/ \E r \in Readers : ReaderRead(r, LiveMsgs)
    \/ \E r \in Readers : ReaderReadFail(r)
    \/ \E r \in Readers : ReaderExit(r)
    \/ \E r \in Readers : ProcessPost(r)
    \/ \E r \in Readers : DeliverPost(r)
    \/ \E r \in Readers : ProcessOrderUpdates(r)
    \/ \E r \in Readers : ProcessFeed(r)
    \/ \E r \in Readers : HandlerReturn(r)

SpecLive == Init /\ [][NextLive]_vars /\ \A e \in Execs : WF_vars(LiveStep(e))

\* the client after 2^31 - 2 Posts: the id counter is two short of the
\* largest 32-bit signed value, nothing is pending
InitIds ==
    /\ conn = 0
    /\ connClosed = {}
    /\ nconn = 0
    /\ connected = FALSE
    /\ done = 0
    /\ doneClosed = {}
    /\ handlers = EmptyMap
    /\ postHandlers = EmptyMap
    /\ chans = EmptyMap
    /\ idCounter = MaxInt32 - 1
    /\ connMu = NoHolder
    /\ muR = {}
    /\ pc = [e \in Execs |-> IF e \in Callers THEN "idle" ELSE "off"]
    /\ loc = [e \in Execs |-> NoLoc]
    /\ rd = [r \in Readers |-> NoRd]
    /\ wire = NoWire
    /\ panicked = FALSE
    /\ lastSub = EmptyMap
    /\ gone = {}
    /\ nOps = 0
    /\ nMsgs = 0
    /\ nFaults = 0

\* the lifecycle and request correlation of a client that has made that many Posts
SpecIds == InitIds /\ [][Next]_vars

\* ------------------------------------------------------------ properties
PostReturned(t) == pc[t] = "idle" /\ loc[t].op = "Post" /\ loc[t].ret

Dispatched(r) == rd[r].stage = "dispatched"
Settled(r) == rd[r].stage \in {"dispatched", "dropped"}
OrderMsg(r) == rd[r].msg.kind = "feed" /\ rd[r].msg.channel = OrderUpdates

\* a registry key that is the order-update topic followed by "-" and more
UserKeyed(k) == Len(k) > 2 /\ k[1] = "orderUpdates" /\ k[2] = Dash

\* C1: a Post call that was outstanding when Disconnect ran (it was woken by
\* Disconnect closing its response channel) returns a non-nil error, never a
\* success result.
C1_CancelledPostFails ==
    \A t \in Callers :
        (loc[t].op = "Post" /\ loc[t].ret /\ loc[t].how = "closed") => loc[t].err # NoErr

\* C2: a Post that takes a response from its channel returns what the first
\* "post" message with its id carried (the payload for a non-error type), a
\* channel only ever receives messages of its own id, a result once returned
\* is never changed, and handling a "post" message never changes the
\* correlation table; a message whose id is not in the table changes nothing.
C2_PostRoundTrip ==
    [][ /\ \A t \in Callers :
              /\ (loc'[t].op = "Post" /\ loc'[t].how = "value" /\ loc[t].how # "value") =>
                    /\ chans[loc[t].id].first.id = loc[t].id
                    /\ loc'[t].res = (IF chans[loc[t].id].first.isErr
                                      THEN Nil ELSE chans[loc[t].id].first.val)
                    /\ loc'[t].err = (IF chans[loc[t].id].first.isErr
                                      THEN chans[loc[t].id].first.val ELSE NoErr)
              /\ (PostReturned(t) /\ nOps' = nOps) => loc'[t] = loc[t]
        /\ \A c \in DOMAIN chans' : chans'[c].first # NoValue => chans'[c].first.id = c
        /\ \A r \in Readers :
              /\ (pc[r] \in {"proc", "deliver"} /\ pc'[r] # pc[r]) =>
                    postHandlers' = postHandlers
              /\ (pc[r] = "proc" /\ pc'[r] # pc[r] /\ rd[r].msg.kind = "post"
                    /\ rd[r].msg.id \notin DOMAIN postHandlers) =>
                    /\ UNCHANGED <<chans, loc, handlers, connected, conn>>
                    /\ pc'[r] = "check"
      ]_vars

\* a Post has returned the payload of a response and a later duplicate of
\* that response has been dropped
C2_Witness ==
    \E t \in Callers, r \in Readers :
        /\ PostReturned(t) /\ loc[t].how = "value" /\ loc[t].res \in Payloads
        /\ rd[r].msg.kind = "post" /\ rd[r].msg.id = loc[t].id /\ rd[r].stage = "dropped"

\* C3: a Post that times out returns the request-timeout error and no
\* payload, its id is out of the correlation table when it has returned, and
\* a response for an id that is not in the table is ignored: no caller's
\* result, no channel and no table changes, and the reader loop goes on.
C3_PostTimeout ==
    [][ /\ \A t \in Callers :
              (pc'[t] = "idle" /\ loc'[t].op = "Post" /\ loc'[t].how = "timeout") =>
                  /\ loc'[t].err = "request timeout"
                  /\ loc'[t].res = Nil
                  /\ loc'[t].id \notin DOMAIN postHandlers'
        /\ \A r \in Readers :
              (pc[r] = "proc" /\ pc'[r] # pc[r] /\ rd[r].msg.kind = "post"
                 /\ \E t \in Callers : PostReturned(t) /\ loc[t].how = "timeout"
                                          /\ loc[t].id = rd[r].msg.id) =>
                  /\ UNCHANGED <<chans, loc, postHandlers, handlers, connected, conn>>
                  /\ pc'[r] = "check"
      ]_vars

\* a Post has timed out and a late response for its id has been dropped
C3_Witness ==
    \E t \in Callers, r \in Readers :
        /\ PostReturned(t) /\ loc[t].how = "timeout"
        /\ rd[r].msg.kind = "post" /\ rd[r].msg.id = loc[t].id /\ rd[r].stage = "dropped"
        /\ pc[r] = "check"

\* C4: with S1 and S2 of different channel keys both registered, a feed
\* message for S1 (one the venue sends for S1, and whose dispatch key is not
\* S2's own key) never invokes the handler registered for S2.
C4_RoutingIsolation ==
    \A r \in Readers, s2 \in Subs :
        (/\ Dispatched(r)
         /\ ChannelKey(rd[r].msg.target) \in rd[r].regAt
         /\ ChannelKey(s2) \in rd[r].regAt
         /\ ChannelKey(s2) # ChannelKey(rd[r].msg.target)
         /\ ChannelKey(s2) # DispatchKey(rd[r].msg))
        => rd[r].via # ChannelKey(s2)

\* C5: the registry holds, per channel key, the callback of the latest
\* Subscribe for that key, and the handler a message is dispatched to is the
\* one of the latest Subscribe for the key it was found under, called once,
\* never the callback that Subscribe replaced.
C5_LastSubscribeWins ==
    /\ DOMAIN handlers = DOMAIN lastSub
    /\ \A k \in DOMAIN handlers : handlers[k] = lastSub[k].h
    /\ \A r \in Readers :
          Dispatched(r) => /\ rd[r].h = rd[r].latest.h
                           /\ rd[r].calls = 1
                           /\ rd[r].latest.prev \notin {None, rd[r].latest.h}
                                 => rd[r].h # rd[r].latest.prev

\* a message for a descriptor subscribed twice was dispatched to the second callback
C5_Witness ==
    \E r \in Readers :
        /\ Dispatched(r)
        /\ rd[r].via = ChannelKey(rd[r].msg.target)
        /\ rd[r].latest.prev = "h1" /\ rd[r].h = "h2"

\* C6: a message for S that is read and dispatched while Unsubscribe(S) has
\* returned (and S was not subscribed again) invokes no handler, in
\* particular none of another subscription that the prefix scan reaches.
C6_UnsubscribedIsSilent ==
    \A r \in Readers :
        ~(/\ Dispatched(r) /\ rd[r].readGone /\ rd[r].callGone
          /\ rd[r].via # DispatchKey(rd[r].msg))

\* C7 as claimed: with a handler registered under the bare topic type and no
\* entry under the message's dispatch key, an order-update message whose
\* dispatch key has a user segment is dispatched to the bare-topic handler.
C7_BareTopicFallback ==
    \A r \in Readers :
        (/\ Settled(r) /\ OrderMsg(r) /\ rd[r].msg.hasUser
         /\ OrderUpdates \in rd[r].reg1
         /\ DispatchKey(rd[r].msg) \notin rd[r].reg1)
        => (Dispatched(r) /\ rd[r].via = OrderUpdates)

\* C7 amended: the prefix scan goes the other way. An order-update message
\* whose dispatch key is the bare topic type is dispatched, once, to a handler
\* registered under topic-user when none is registered under the bare key
\* (to that one when it is the only such entry); the scan never selects the
\* bare-topic entry, so a message with a user segment in its key and no entry
\* under that key or under another topic-user key is dropped.
C7_PrefixScanFallback ==
    \A r \in Readers :
        (Settled(r) /\ OrderMsg(r)) =>
            /\ (/\ ~rd[r].msg.hasUser
                /\ OrderUpdates \notin rd[r].reg1
                /\ \E k \in rd[r].reg1 : UserKeyed(k))
               => /\ Dispatched(r) /\ rd[r].calls = 1 /\ rd[r].arg = "orders"
                  /\ UserKeyed(rd[r].via)
                  /\ Cardinality({k \in rd[r].reg1 : UserKeyed(k)}) = 1
                        => rd[r].via \in rd[r].reg1
            /\ (Dispatched(r) /\ rd[r].via # DispatchKey(rd[r].msg)) => UserKeyed(rd[r].via)
            /\ (/\ rd[r].msg.hasUser
                /\ DispatchKey(rd[r].msg) \notin rd[r].reg1
                /\ ~\E k \in rd[r].reg1 : UserKeyed(k)
                /\ DispatchKey(rd[r].msg) \notin rd[r].regAt)
               => rd[r].stage = "dropped"

\* a bare-key order update reached a topic-user handler through the scan
C7_Witness ==
    \E r \in Readers :
        /\ Dispatched(r) /\ OrderMsg(r) /\ ~rd[r].msg.hasUser
        /\ DispatchKey(rd[r].msg) = OrderUpdates
        /\ UserKeyed(rd[r].via)

\* C8: while the subscription that SubscribeToOrderUpdates(address, callback)
\* made is registered, every order-update message with a list payload invokes
\* its callback exactly once (stated for the non-empty addresses, with no
\* subscription under the empty address around).
C8_OrderCallbackAlways ==
    \A r \in Readers, s \in {SubOrdersA, SubOrdersB} :
        (/\ Settled(r) /\ OrderMsg(r) /\ ~rd[r].msg.hasUser /\ ~rd[r].msg.hasCoin
         /\ ChannelKey(s) \in rd[r].reg1
         /\ OrderUpdates \notin rd[r].reg1)
        => (Dispatched(r) /\ rd[r].calls = 1 /\ rd[r].via = ChannelKey(s))

\* C9: Connect on a connected client and Disconnect on a disconnected client
\* return no error and leave the client as it was.
C9_LifecycleIdempotent ==
    [][ \A t \in Callers :
          /\ (Connect(t) /\ connected) =>
                /\ UNCHANGED <<conn, connClosed, nconn, connected, done, doneClosed,
                               handlers, postHandlers, chans, idCounter, wire>>
                /\ \A r \in Readers : pc'[r] = pc[r]
                /\ loc'[t].err = NoErr /\ pc'[t] = "idle"
          /\ (DisconnectBegin(t) /\ ~connected) =>
                /\ UNCHANGED <<conn, connClosed, nconn, connected, done, doneClosed,
                               handlers, postHandlers, chans, idCounter, wire>>
                /\ \A r \in Readers : pc'[r] = pc[r]
                /\ loc'[t].err = NoErr /\ pc'[t] = "idle"
      ]_vars

\* Connect has returned on a connected client, Disconnect on a disconnected one
C9_Witness ==
    \E t, u \in Callers :
        /\ pc[t] = "idle" /\ loc[t].op = "Connect" /\ loc[t].how = "connected"
        /\ pc[u] = "idle" /\ loc[u].op = "Disconnect" /\ loc[u].how = "disconnected"

\* C10: the reader loop does not hold the data lock while a handler runs, so
\* a handler that calls Subscribe is never waiting for the write lock while
\* its own reader loop holds the read lock.
C10_NoLockWhileHandlerRuns ==
    \A r \in Readers : HandlerRunning(r) => r \notin muR

\* the pc values at which a call is about to enter sendMessage
SendPcs == {"SubSend", "UnsSend", "PostSend"}

\* C11: every write to the transport is made under the lifecycle lock, and
\* no send is attempted on a transport that Disconnect has already closed:
\* whenever Subscribe, Unsubscribe or Post gets past the connected test of
\* sendMessage and calls WriteMessage, the transport it writes to has not
\* been closed.
C11_NoSendOnClosedTransport ==
    [][ \A e \in Execs :
          (pc[e] \in SendPcs /\ pc'[e] # pc[e] /\ connected) =>
              (connMu = NoHolder /\ conn \notin connClosed)
      ]_vars

\* C12: request ids come from a strictly increasing counter: the id a Post
\* allocates is larger than the counter was and than every id allocated
\* before it, so it was never allocated before.
C12_IdsStrictlyIncrease ==
    [][ \A t \in Callers :
          (pc[t] = "PostAlloc" /\ pc'[t] = "PostReg") =>
              /\ loc'[t].id > idCounter
              /\ \A c \in DOMAIN chans : loc'[t].id > c
              /\ loc'[t].id \notin DOMAIN chans
      ]_vars

\* C13: Unsubscribe called while the client is not connected returns the
\* not-connected error and changes nothing: no connection is opened, no
\* reader loop is started, the registry is as it was and nothing is written.
\* While connected, Unsubscribe of a key that is not in the registry leaves
\* the registry as it was, and the call returns no error when its message
\* goes out.
C13_UnsubscribeNotConnected ==
    [][ \A t \in Callers :
          /\ (pc[t] = "idle" /\ nOps' = nOps + 1 /\ loc'[t].op = "Unsubscribe" /\ ~connected) =>
                /\ loc'[t].ret /\ loc'[t].err = "not connected" /\ pc'[t] = "idle"
                /\ UNCHANGED <<conn, connClosed, nconn, connected, done, doneClosed,
                               handlers, postHandlers, chans, wire>>
                /\ \A r \in Readers : pc'[r] = pc[r]
          /\ (pc[t] = "UnsReg" /\ pc'[t] # pc[t]
                /\ ChannelKey(loc[t].sub) \notin DOMAIN handlers) =>
                handlers' = handlers
          /\ (pc[t] = "UnsSend" /\ pc'[t] # pc[t] /\ loc[t].how = "absent" /\ wire' # wire) =>
                (loc'[t].ret /\ loc'[t].err = NoErr /\ wire'.method = "unsubscribe")
      ]_vars

\* Unsubscribe has failed on a client that was connected before and still
\* has a handler registered
C13_Witness ==
    \E t \in Callers :
        /\ pc[t] = "idle" /\ loc[t].op = "Unsubscribe" /\ loc[t].ret
        /\ loc[t].err = "not connected" /\ loc[t].how = "notConnected"
        /\ ~connected /\ nconn > 0 /\ DOMAIN handlers # {}

\* C14: the transport handle is non-nil exactly when the connected flag is
\* true.
C14_HandleIffConnected == (conn # 0) <=> connected

\* C15: a reader loop reads only from the transport of the connection it was
\* started for, and no two reader loops are reading at the same time.
C15_OneReaderPerConnection ==
    /\ \A r \in Readers : pc[r] = "read" => rd[r].conn = r
    /\ \A r1, r2 \in Readers : (pc[r1] = "read" /\ pc[r2] = "read") => r1 = r2

\* C16: whenever Post writes its "post" message with id N to the transport,
\* the correlation table holds an entry for N (stated for the runs in which
\* no dial, read, write or close has failed).
C16_PostSentIsRegistered ==
    [][ \A t \in Callers :
          (pc[t] = "PostSend" /\ pc'[t] = "PostWait" /\ nFaults' = 0) =>
              /\ wire'.method = "post" /\ wire'.id = loc[t].id
              /\ loc[t].id \in DOMAIN postHandlers
      ]_vars

\* C17: whenever Subscribe writes its "subscribe" message for S to the
\* transport, the registry holds the callback of that call under S's channel
\* key (stated for the runs in which no dial, read, write or close has failed).
C17_SubscribeSentIsRegistered ==
    [][ \A e \in Execs :
          (pc[e] = "SubSend" /\ pc'[e] # pc[e] /\ loc'[e].how = "sent" /\ nFaults' = 0) =>
              /\ wire'.method = "subscribe" /\ wire'.sub = loc[e].sub
              /\ ChannelKey(loc[e].sub) \in DOMAIN handlers
              /\ handlers[ChannelKey(loc[e].sub)] = loc[e].h
      ]_vars

Malformed(m) == m.kind = "garbage" \/ (m.kind = "post" /\ m.bad # None)

\* C18: a malformed inbound message (one that does not parse, or a "post"
\* message whose data, id or response is missing or of the wrong type) is
\* dropped in isolation: handling it changes neither the registry, the
\* correlation table, any response channel, any caller's call nor the
\* connection, nothing panics, and the reader loop is back at the top of its
\* loop, from where the next message is handled as if this one had not come.
C18_MalformedDropped ==
    [][ \A r \in Readers :
          (pc[r] = "proc" /\ pc'[r] # pc[r] /\ Malformed(rd[r].msg)) =>
              /\ UNCHANGED <<handlers, postHandlers, chans, loc, conn, connClosed,
                             connected, done, doneClosed, muR, connMu, panicked>>
              /\ pc'[r] = "check" /\ rd'[r].stage = "dropped"
              /\ \A e \in Execs \ {r} : pc'[e] = pc[e]
      ]_vars

\* a malformed "post" message carrying the id of a waiting Post was dropped
\* and the Post is still waiting, its channel empty
C18_Witness ==
    \E r \in Readers, t \in Callers :
        /\ rd[r].stage = "dropped" /\ rd[r].msg.kind = "post" /\ rd[r].msg.bad # None
        /\ pc[r] = "check"
        /\ pc[t] = "PostWait" /\ loc[t].id = rd[r].msg.id
        /\ loc[t].id \in DOMAIN postHandlers
        /\ chans[loc[t].id].buf = <<>> /\ ~chans[loc[t].id].closed

FeedMsgOf(r) == rd[r].msg.kind = "feed"

\* C19 as claimed: a feed message whose dispatch key matches no registry
\* entry (and, for order updates, with no entry for the prefix scan) is
\* handed, with the raw payload, to the handler registered under the bare
\* channel label when there is one.
C19_BareLabelLastResort ==
    \A r \in Readers :
        (/\ Settled(r) /\ FeedMsgOf(r)
         /\ DispatchKey(rd[r].msg) \notin rd[r].regAt
         /\ ~\E k \in rd[r].regAt \cup rd[r].reg1 : UserKeyed(k)
         /\ rd[r].msg.channel \in rd[r].regAt)
        => (Dispatched(r) /\ rd[r].via = rd[r].msg.channel /\ rd[r].arg = "raw")

\* C19 amended: the last lookup uses the derived dispatch key itself, not the
\* bare channel label. A handler called with the raw payload is the one
\* registered under the message's dispatch key, and a message whose dispatch
\* key is not in the registry at that lookup (and that the order-update case
\* has not dispatched) is dropped, also when a handler is registered under
\* the bare channel label.
C19_SameKeyLastResort ==
    \A r \in Readers :
        (Settled(r) /\ FeedMsgOf(r)) =>
            /\ (Dispatched(r) /\ rd[r].arg = "raw") =>
                  (rd[r].via = DispatchKey(rd[r].msg) /\ rd[r].via \in rd[r].regAt)
            /\ rd[r].stage = "dropped" => DispatchKey(rd[r].msg) \notin rd[r].regAt
            /\ (rd[r].arg # "orders" /\ DispatchKey(rd[r].msg) \notin rd[r].regAt) =>
                  rd[r].stage = "dropped"

\* a message with a suffixed dispatch key was dropped while a handler was
\* registered under its bare channel label
C19_Witness ==
    \E r \in Readers :
        /\ rd[r].stage = "dropped" /\ FeedMsgOf(r)
        /\ DispatchKey(rd[r].msg) # rd[r].msg.channel
        /\ DispatchKey(rd[r].msg) \notin rd[r].regAt
        /\ rd[r].msg.channel \in rd[r].regAt

PostPcs == {"PostConnect", "PostAlloc", "PostReg", "PostSend", "PostWait", "PostDefer"}

\* C20: every Post call eventually returns, and when it has returned its id
\* is no longer in the correlation table.
C20_PostEventuallyReturns ==
    \A t \in Callers :
        (pc[t] \in PostPcs) ~> (pc[t] = "idle" /\ loc[t].id \notin DOMAIN postHandlers)

\* C21: whenever a Disconnect that found the client connected returns, the
\* transport has been closed and the client is disconnected, whether or not
\* the close frame or Close() reported an error.
C21_DisconnectAlwaysDisconnects ==
    [][ \A t \in Callers :
          (pc[t] = "DiscClear" /\ pc'[t] = "idle") =>
              (~connected' /\ conn \in connClosed')
      ]_vars

\* the request with this id went out: its Post got past sendMessage
PostWasSent(id) ==
    \E t \in Callers :
        /\ loc[t].op = "Post" /\ loc[t].id = id
        /\ pc[t] = "PostWait" \/ loc[t].how \in {"value", "closed", "timeout"}

\* C22: the reader loop never sends a "post" response into a response
\* channel that Disconnect has closed (stated for the responses to requests
\* that went out).
C22_NoDeliveryIntoClosedSlot ==
    [][ \A r \in Readers :
          (DeliverPost(r) /\ PostWasSent(rd[r].ch)) => ~chans[rd[r].ch].closed ]_vars

\* C23: delivering a "post" response never blocks the reader loop for ever:
\* while the reader loop is at the send with the channel's buffer full, the
\* Post that receives from the channel is still to receive, or the channel is
\* still in the correlation table (stated for the responses to requests that
\* went out).
C23_DeliveryNeverStuck ==
    \A r \in Readers :
        (/\ pc[r] = "deliver" /\ ~chans[rd[r].ch].closed /\ Len(chans[rd[r].ch].buf) >= 1
         /\ PostWasSent(rd[r].ch)) =>
            \/ rd[r].ch \in DOMAIN postHandlers
            \/ \E t \in Callers : pc[t] \in {"PostSend", "PostWait"} /\ loc[t].id = rd[r].ch

\* C24: the exit of the reader loop of an earlier connection leaves the
\* connected flag alone while a later connection is live (stated for the runs
\* in which no dial, read, write or close has failed, so that the later
\* connection's transport is open and no read on it has failed).
C24_OldReaderExitKeepsConnected ==
    [][ \A r \in Readers :
          (/\ pc[r] = "exit" /\ pc'[r] = "ended"
           /\ conn # r /\ conn \notin connClosed /\ connected /\ nFaults = 0)
          => connected'
      ]_vars

\* C25: for a subscription that has both a user and an instrument, a message
\* on its channel whose payload carries that instrument and that user is
\* dispatched to the handler stored for the subscription whenever that
\* handler is in the registry at the lookup.
C25_SubscribeAndDispatchKeysAgree ==
    \A r \in Readers :
        (/\ Settled(r) /\ FeedMsgOf(r)
         /\ rd[r].msg.hasCoin /\ rd[r].msg.hasUser
         /\ rd[r].msg.target.User # EmptyStr /\ rd[r].msg.target.Coin # EmptyStr
         /\ ChannelKey(rd[r].msg.target) \in rd[r].regAt)
        => (Dispatched(r) /\ rd[r].via = ChannelKey(rd[r].msg.target))

====
